---- MODULE Spec2Model ----
(***************************************************************************)
(* Model of wakeup/wakeup.py: a main thread that registers a key watcher   *)
(* for 'q' and then loops { print time; set_status_available(); sleep 300 }*)
(* while the global flag q_pressed is False, and the keyboard library's    *)
(* listener thread, which runs check_q_press for every press of 'q'.       *)
(* Time is a tick counter advanced by one per second of time.sleep.        *)
(***************************************************************************)
EXTENDS Integers, Sequences, FiniteSets, TLC

\* ---------------------------------------------------------------- bounds
MaxQueue == 1          \* key events captured but not yet dispatched

\* ------------------------------------------------------------- constants
SleepAfterWin   == 1       \* time.sleep(1) after pyautogui.press('win')
SleepAfterType  == 1       \* time.sleep(1) after pyautogui.typewrite('Teams')
SleepAfterEnter_Shorter == 2 - 1
SleepAfterEnter == 2       \* time.sleep(2) after pyautogui.press('enter')
MainSleep_Short == 300 \div 10
MainSleep       == 300     \* time.sleep(300) in the while loop
Unbound         == -1      \* local teams_window not bound (outside the call)
WindowHandles   == {0, 1}  \* FindWindow result: 0 = no such window, 1 = a handle

Keys       == {"q", "a"}
EventTypes == {"down", "up"}
Events     == [key : Keys, type : EventTypes]
NoEvent    == [key |-> "none", type |-> "none"]
QDown      == [key |-> "q", type |-> "down"]

VARIABLES
    pc,            \* position of the main thread
    remaining,     \* seconds left of the time.sleep in progress
    q_pressed,     \* the global flag
    hooks,         \* number of handlers registered for 'q'
    queue,         \* key events captured by the library, not yet dispatched
    lpc,           \* position of the listener thread
    event,         \* argument of the running check_q_press call
    teams_window,  \* local of set_status_available
    uiLog,         \* UI calls made by the current/last set_status_available
    printed,       \* kinds of lines written to stdout
    \* history (observation only)
    sinceRead,     \* seconds slept since the last evaluation of the while test
    hasRead,       \* the while test has been evaluated at least once
    sleptMain,     \* seconds of the line-52 sleep done since the last call
    activated,     \* set_status_available has been called at least once
    iterActs,      \* calls of set_status_available since the last while test
    actsSinceSet,  \* calls of set_status_available begun after line 39 ran
    readsSinceSet, \* while tests evaluated after line 39 ran
    qBeforeReg,    \* 'q' was pressed before the watcher was registered
    qAfterReg,     \* 'q' was pressed after the watcher was registered
    cbRan,         \* line 39 has been executed
    failed         \* some step raised an exception

vars == <<pc, remaining, q_pressed, hooks, queue, lpc, event, teams_window,
          uiLog, printed, sinceRead, hasRead, sleptMain, activated, iterActs,
          actsSinceSet, readsSinceSet, qBeforeReg, qAfterReg, cbRan, failed>>

mainState == <<pc, remaining, teams_window, uiLog, sinceRead, hasRead,
               sleptMain, activated, iterActs, readsSinceSet, failed>>
keyHist   == <<qBeforeReg, qAfterReg>>

Min(a, b) == IF a < b THEN a ELSE b

\* ------------------------------------------------------ pieces of the code
\* while not q_pressed:
LoopCondition_Forever(flag) == TRUE
LoopCondition(flag) == ~flag

\* keyboard.on_press_key('q', check_q_press): key 'q', key-down events only
CallbackMatches_Release(e) == e.key = "q" /\ e.type = "up"
CallbackMatches_AnyKey(e) == e.type = "down"
CallbackMatches(e) == e.key = "q" /\ e.type = "down"

\* q_pressed = True
StoreValue_Toggle == ~q_pressed
StoreValue == TRUE

\* one call of keyboard.on_press_key adds one handler
RegisteredHooks_Twice(h) == h + 2
RegisteredHooks(h) == h + 1

\* time.sleep(n) returns when n seconds are over, and for no other reason
SleepOver_Interruptible(rem) == rem = 0 \/ q_pressed
SleepOver(rem) == rem = 0

\* lines 21-33 are comments: nothing follows the window lookup
StatusChange_Enabled(h) ==
    IF h # 0
    THEN <<"SetForegroundWindow", "moveTo", "click", "press:down",
           "press:enter", "click">>
    ELSE <<>>
StatusChange(h) == <<>>

\* an exception is caught nowhere: it ends main()
OnUncaught_Retry == "while"
OnUncaught == "error"

SleepPcs   == {"sleep_13", "sleep_15", "sleep_19", "sleep_52"}
FailPoints == {"press_win", "typewrite", "press_enter", "find_window"}
                  \cup SleepPcs
Alive      == pc \notin {"done", "error"}

Init ==
    /\ pc = "register"
    /\ remaining = 0
    /\ q_pressed = FALSE
    /\ hooks = 0
    /\ queue = <<>>
    /\ lpc = "idle"
    /\ event = NoEvent
    /\ teams_window = Unbound
    /\ uiLog = <<>>
    /\ printed = {}
    /\ sinceRead = 0
    /\ hasRead = FALSE
    /\ sleptMain = 0
    /\ activated = FALSE
    /\ iterActs = 0
    /\ actsSinceSet = 0
    /\ readsSinceSet = 0
    /\ qBeforeReg = FALSE
    /\ qAfterReg = FALSE
    /\ cbRan = FALSE
    /\ failed = FALSE

\* ------------------------------------------------------------ main thread
\* line 46
Register ==
    /\ pc = "register"
    /\ hooks' = RegisteredHooks(hooks)
    /\ pc' = "while"
    /\ UNCHANGED <<remaining, q_pressed, queue, lpc, event, teams_window,
                   uiLog, printed, sinceRead, hasRead, sleptMain, activated,
                   iterActs, actsSinceSet, readsSinceSet, keyHist, cbRan,
                   failed>>

\* line 48
WhileTest ==
    /\ pc = "while"
    /\ pc' = IF LoopCondition(q_pressed) THEN "print_time" ELSE "print_exit"
    /\ hasRead' = TRUE
    /\ sinceRead' = 0
    /\ iterActs' = 0
    /\ readsSinceSet' = IF cbRan THEN Min(readsSinceSet + 1, 2) ELSE 0
    /\ UNCHANGED <<remaining, q_pressed, hooks, queue, lpc, event,
                   teams_window, uiLog, printed, sleptMain, activated,
                   actsSinceSet, keyHist, cbRan, failed>>

\* lines 49-50
PrintTime ==
    /\ pc = "print_time"
    /\ printed' = printed \cup {"activating"}
    /\ pc' = "call"
    /\ UNCHANGED <<remaining, q_pressed, hooks, queue, lpc, event,
                   teams_window, uiLog, sinceRead, hasRead, sleptMain,
                   activated, iterActs, actsSinceSet, readsSinceSet, keyHist,
                   cbRan, failed>>

\* line 51: the call itself
CallSetStatus ==
    /\ pc = "call"
    /\ pc' = "press_win"
    /\ uiLog' = <<>>
    /\ activated' = TRUE
    /\ sleptMain' = 0
    /\ iterActs' = Min(iterActs + 1, 2)
    /\ actsSinceSet' = IF cbRan THEN Min(actsSinceSet + 1, 2) ELSE 0
    /\ UNCHANGED <<remaining, q_pressed, hooks, queue, lpc, event,
                   teams_window, printed, sinceRead, hasRead, readsSinceSet,
                   keyHist, cbRan, failed>>

\* a UI call at position p, followed by time.sleep(n) at position next
UICall(p, what, next, n) ==
    /\ pc = p
    /\ uiLog' = Append(uiLog, what)
    /\ pc' = next
    /\ remaining' = n
    /\ UNCHANGED <<q_pressed, hooks, queue, lpc, event, teams_window, printed,
                   sinceRead, hasRead, sleptMain, activated, iterActs,
                   actsSinceSet, readsSinceSet, keyHist, cbRan, failed>>

\* lines 12-13
PressWin == UICall("press_win", "press:win", "sleep_13", SleepAfterWin)
\* lines 14-15
TypeTeams == UICall("typewrite", "typewrite:Teams", "sleep_15", SleepAfterType)
\* lines 16-19
PressEnter == UICall("press_enter", "press:enter", "sleep_19", SleepAfterEnter)

\* line 20
FindWindow ==
    /\ pc = "find_window"
    /\ \E h \in WindowHandles : teams_window' = h
    /\ uiLog' = Append(uiLog, "FindWindow:Microsoft Teams")
    /\ pc' = "return"
    /\ UNCHANGED <<remaining, q_pressed, hooks, queue, lpc, event, printed,
                   sinceRead, hasRead, sleptMain, activated, iterActs,
                   actsSinceSet, readsSinceSet, keyHist, cbRan, failed>>

\* lines 21-33 and the return to line 52
ReturnSetStatus ==
    /\ pc = "return"
    /\ uiLog' = uiLog \o StatusChange(teams_window)
    /\ teams_window' = Unbound
    /\ pc' = "sleep_52"
    /\ remaining' = MainSleep
    /\ UNCHANGED <<q_pressed, hooks, queue, lpc, event, printed, sinceRead,
                   hasRead, sleptMain, activated, iterActs, actsSinceSet,
                   readsSinceSet, keyHist, cbRan, failed>>

AfterSleep(p) ==
    CASE p = "sleep_13" -> "typewrite"
      [] p = "sleep_15" -> "press_enter"
      [] p = "sleep_19" -> "find_window"
      [] p = "sleep_52" -> "while"

\* one second of a time.sleep (lines 13, 15, 19, 52)
SleepTick ==
    /\ pc \in SleepPcs
    /\ ~SleepOver(remaining)
    /\ remaining' = remaining - 1
    /\ sinceRead' = sinceRead + 1
    /\ sleptMain' = IF pc = "sleep_52" THEN sleptMain + 1 ELSE sleptMain
    /\ UNCHANGED <<pc, q_pressed, hooks, queue, lpc, event, teams_window,
                   uiLog, printed, hasRead, activated, iterActs, actsSinceSet,
                   readsSinceSet, keyHist, cbRan, failed>>

\* time.sleep returns
SleepReturn ==
    /\ pc \in SleepPcs
    /\ SleepOver(remaining)
    /\ pc' = AfterSleep(pc)
    /\ remaining' = 0
    /\ UNCHANGED <<q_pressed, hooks, queue, lpc, event, teams_window, uiLog,
                   printed, sinceRead, hasRead, sleptMain, activated, iterActs,
                   actsSinceSet, readsSinceSet, keyHist, cbRan, failed>>

\* line 54 and the return of main()
PrintExit ==
    /\ pc = "print_exit"
    /\ printed' = printed \cup {"Exiting..."}
    /\ pc' = "done"
    /\ UNCHANGED <<remaining, q_pressed, hooks, queue, lpc, event,
                   teams_window, uiLog, sinceRead, hasRead, sleptMain,
                   activated, iterActs, actsSinceSet, readsSinceSet, keyHist,
                   cbRan, failed>>

\* a call of set_status_available or a sleep raises; there is no try/except
Fail ==
    /\ pc \in FailPoints
    /\ failed' = TRUE
    /\ pc' = OnUncaught
    /\ remaining' = 0
    /\ teams_window' = Unbound
    /\ UNCHANGED <<q_pressed, hooks, queue, lpc, event, uiLog, printed,
                   sinceRead, hasRead, sleptMain, activated, iterActs,
                   actsSinceSet, readsSinceSet, keyHist, cbRan>>

\* -------------------------------------------------- keyboard and listener
\* the user presses or releases a key; it is captured once a hook exists
KeyPress ==
    /\ Alive
    /\ Len(queue) < MaxQueue
    /\ \E e \in Events :
         /\ queue' = IF hooks > 0 THEN Append(queue, e) ELSE queue
         /\ qBeforeReg' = (qBeforeReg \/ (e = QDown /\ hooks = 0))
         /\ qAfterReg' = (qAfterReg \/ (e = QDown /\ hooks > 0))
    /\ UNCHANGED <<mainState, q_pressed, hooks, lpc, event, printed,
                   actsSinceSet, cbRan>>

\* the listener takes the next event and calls the handler if it matches
Dispatch ==
    /\ Alive
    /\ lpc = "idle"
    /\ queue # <<>>
    /\ queue' = Tail(queue)
    /\ IF hooks > 0 /\ CallbackMatches(Head(queue))
       THEN lpc' = "cb_store" /\ event' = Head(queue)
       ELSE UNCHANGED <<lpc, event>>
    /\ UNCHANGED <<mainState, q_pressed, hooks, printed, actsSinceSet,
                   keyHist, cbRan>>

\* line 39
CallbackStore ==
    /\ Alive
    /\ lpc = "cb_store"
    /\ q_pressed' = StoreValue
    /\ cbRan' = TRUE
    /\ lpc' = "cb_print"
    /\ UNCHANGED <<mainState, hooks, queue, event, printed, actsSinceSet,
                   keyHist>>

\* line 40 and the return of check_q_press
CallbackPrint ==
    /\ Alive
    /\ lpc = "cb_print"
    /\ printed' = printed \cup {"q pressed"}
    /\ lpc' = "idle"
    /\ event' = NoEvent
    /\ UNCHANGED <<mainState, q_pressed, hooks, queue, actsSinceSet, keyHist,
                   cbRan>>

MainStep ==
    \/ Register
    \/ WhileTest
    \/ PrintTime
    \/ CallSetStatus
    \/ PressWin
    \/ TypeTeams
    \/ PressEnter
    \/ FindWindow
    \/ ReturnSetStatus
    \/ SleepTick
    \/ SleepReturn
    \/ PrintExit

ListenerStep ==
    \/ Dispatch
    \/ CallbackStore
    \/ CallbackPrint

Next ==
    \/ MainStep
    \/ Fail
    \/ KeyPress
    \/ ListenerStep

Spec == Init /\ [][Next]_vars

\* both threads keep running while they can; failures and key presses are
\* up to the environment
FairSpec == Spec /\ WF_vars(MainStep) /\ WF_vars(ListenerStep)

TypeOK ==
    /\ pc \in {"register", "while", "print_time", "call", "press_win",
               "typewrite", "press_enter", "find_window", "return",
               "print_exit", "done", "error"} \cup SleepPcs
    /\ remaining \in 0..MainSleep
    /\ q_pressed \in BOOLEAN
    /\ hooks \in 0..2
    /\ Len(queue) <= MaxQueue
    /\ lpc \in {"idle", "cb_store", "cb_print"}
    /\ teams_window \in WindowHandles \cup {Unbound}

\* ------------------------------------------------------------------ claims
QEver == qBeforeReg \/ qAfterReg
Exited == pc = "done" /\ "Exiting..." \in printed
ExpectedCalls == <<"press:win", "typewrite:Teams", "press:enter",
                   "FindWindow:Microsoft Teams">>
IsPrefix(s, t) == Len(s) <= Len(t) /\ \A i \in 1..Len(s) : s[i] = t[i]
IterationPcs == {"print_time", "call", "press_win", "typewrite",
                 "press_enter", "find_window", "return"} \cup SleepPcs
LoopPcs == IterationPcs \cup {"while", "error"}

\* C1: in every run in which no step fails, a press of 'q' captured after
\* the registration is eventually followed by main() having left the loop,
\* printed 'Exiting...' and returned.
C1_ExitsAfterQ == ([]~failed) => (qAfterReg ~> Exited)
C1_Witness == qAfterReg /\ Exited /\ activated /\ ~failed

\* C2: main() is past its loop only with q_pressed True; q_pressed is True
\* only if check_q_press ran for a 'q' key-down captured after registration;
\* the handler runs for no other event and nothing else changes the flag.
C2_ExitOnlyOnQ ==
    /\ [](pc \in {"print_exit", "done"} => q_pressed)
    /\ [](q_pressed => cbRan /\ qAfterReg)
    /\ [](lpc # "idle" => event = QDown)
    /\ [][q_pressed' # q_pressed => lpc = "cb_store" /\ event = QDown]_vars
C2_Witness == pc = "print_exit" /\ q_pressed
              /\ \E i \in 1..Len(queue) : queue[i].key = "a"

C4_Original == (pc = "while" /\ hasRead) => sinceRead = 300
\* C4 (amended): two consecutive evaluations of the while test are exactly
\* 304 seconds of sleep apart: 1 + 1 + 2 inside set_status_available and
\* 300 in the loop.
C4_Amended == (pc = "while" /\ hasRead) => sinceRead = 304
C4_Witness == pc = "while" /\ hasRead /\ sinceRead = 304

\* C5: only line 39 writes q_pressed and it only writes True: the flag once
\* True stays True under every interleaving, and once the handler has run
\* the flag is True.
C5_SingleWriter ==
    /\ [][q_pressed => q_pressed']_vars
    /\ [][q_pressed' # q_pressed => lpc = "cb_store" /\ lpc' = "cb_print"]_vars
    /\ [](cbRan => q_pressed)
C5_Witness == q_pressed /\ lpc = "cb_print" /\ "q pressed" \in printed
              /\ pc \in IterationPcs

\* C6: the write of the flag changes nothing in the main thread; the loop
\* is left only by the while test, and whenever the while test is evaluated
\* after an activation the 300-second sleep has been slept in full.
C6_NoCancellation ==
    /\ [][q_pressed' # q_pressed
            => pc' = pc /\ remaining' = remaining /\ uiLog' = uiLog]_vars
    /\ [][pc' = "print_exit" /\ pc # "print_exit"
            => pc = "while" /\ q_pressed]_vars
    /\ [][(pc \in IterationPcs) => (pc' \in LoopPcs)]_vars
    /\ [](pc = "while" /\ activated => sleptMain = 300 /\ remaining = 0)
    /\ [](pc = "sleep_52" => remaining + sleptMain = 300)
C6_Witness == q_pressed /\ pc = "sleep_52" /\ remaining > 0
              /\ remaining < 300

\* C7: the watcher is registered exactly once, before the first while test
\* and before the first activation; a 'q' pressed only before the
\* registration leaves q_pressed False.
C7_RegisterOnceFirst ==
    /\ [](hooks <= 1)
    /\ []((hasRead \/ activated) => hooks = 1)
    /\ [][hooks' # hooks => pc = "register" /\ ~hasRead /\ ~activated]_vars
    /\ [](~qAfterReg => ~q_pressed /\ lpc = "idle")
C7_Witness == qBeforeReg /\ ~qAfterReg /\ hooks = 1 /\ hasRead /\ activated
              /\ ~q_pressed

C9_ErrorEndsMain ==
    /\ [](failed => pc = "error" /\ "Exiting..." \notin printed)
    /\ [][failed => pc' = pc /\ uiLog' = uiLog /\ printed' = printed
                    /\ q_pressed' = q_pressed]_vars
C9_Witness == failed /\ pc = "error" /\ activated /\ Len(uiLog) = 2

\* C10: after line 39 has run at most one more activation begins, it begins
\* before the next while test, and after that while test main() only exits.
C10_AtMostOneMore ==
    /\ [](actsSinceSet <= 1)
    /\ [](readsSinceSet <= 1)
    /\ [](readsSinceSet = 1 => pc \in {"print_exit", "done"})
    /\ [][cbRan /\ pc = "call" /\ pc' # pc => readsSinceSet = 0]_vars
C10_Witness == actsSinceSet = 1 /\ pc = "done"

====
